---- MODULE Spec2Model ----
(***************************************************************************)
(* Model of tai-mcp: the EmailPoller (src/services/email-poller.ts), the   *)
(* ApiClient request executor (src/services/api-client.ts), the            *)
(* AuthService session (src/services/auth.ts), the MCP tool handlers       *)
(* (src/tools) and the live command (src/commands/live.ts, src/index.ts).  *)
(***************************************************************************)
EXTENDS Integers, Sequences, FiniteSets, TLC

\* ------------------------------------------------------------------ bounds
MaxId == 3           \* message ids the remote service hands out: 1..MaxId
MaxCycles == 2       \* poll cycles that may be in progress at once
MaxTimers == 2       \* interval handles the runtime hands out
PageLimit == 2       \* the page size of fetchMessages (limit: 10 in the source),
                     \* scaled down with MaxId so that a listing can exceed a page

MaxNow == 2          \* the clock runs from 0 to MaxNow minutes
MaxTokens == 2       \* tokens the remote service hands out: 1..MaxTokens
MaxBodies == 2       \* distinct response bodies of the remote service
MaxCallers == 2       \* tool calls and poll cycles that use one ApiClient at once
ToolPageLimit == 2   \* the page size of fetch_email's listing (limit: 50 in the source)

\* ------------------------------------------------------- program constants
RefreshSkew == 5     \* isTokenExpired: 5 * 60 * 1000 ms, in minutes
Undefined == 0       \* an unset optional field (ids and handles start at 1)

Ids == 1..MaxId
CycleIds == 1..MaxCycles
Handles == 1..MaxTimers
Callers == 1..MaxCallers

VARIABLES
  polling,               \* EmailPoller.polling
  pollInterval,          \* EmailPoller.pollInterval: a handle or Undefined
  lastCheckedMessageId,  \* EmailPoller.lastCheckedMessageId
  timers,                \* interval handles armed in the runtime (not cleared)
  cycles,                \* the checkForNewEmails() invocations in progress
  remoteMax,             \* the remote service holds messages 1..remoteMax
  handlerLog,            \* history: ids passed to processNewEmail, in order
  maxFetched,            \* history: largest id of any page fetched (0: none)
  lastOp,                \* history: the operation that made the last step
  token,                 \* AuthService.token
  tokenExpiry,           \* AuthService.tokenExpiry (minutes)
  now,                   \* the clock read by new Date() (minutes)
  call,                  \* the logical ApiClient call in progress
  lastHeaders,           \* history: outcome of the last getAuthHeaders() of a collaborator
  calls,                 \* the logical calls of concurrent users of one ApiClient
  readIds,               \* the ids the remote service holds as read
  client,                \* the last markAsRead / fetchMessageById of a client, with its outcome
  tool,                  \* the MCP tool handler invocation in progress
  live                   \* the process running the live command

pollerVars == <<polling, pollInterval, lastCheckedMessageId, timers, cycles,
                remoteMax, handlerLog, maxFetched, lastOp>>

apiVars == <<token, tokenExpiry, now, call, lastHeaders, calls>>

pollerVarsButOp == <<polling, pollInterval, lastCheckedMessageId, timers, cycles,
                     remoteMax, handlerLog, maxFetched>>

\* what the actions of the single-call ApiClient leave alone
toolVars == <<readIds, client, tool>>

\* what the actions of the poller leave alone
outsidePoller == <<apiVars, toolVars, live>>

outsideApi == <<pollerVarsButOp, calls, toolVars, live>>

vars == <<pollerVars, apiVars, toolVars, live>>

\* ----------------------------------------------------------------- helpers
Truthy(x) == x # Undefined /\ x # 0

Max(S) == CHOOSE x \in S : \A y \in S : y <= x

Range(s) == {s[i] : i \in 1..Len(s)}

RECURSIVE Filter(_, _)
Filter(s, h) ==
  IF s = <<>> THEN <<>>
  ELSE IF Head(s) > h THEN <<Head(s)>> \o Filter(Tail(s), h)
       ELSE Filter(Tail(s), h)

\* The remote service's listing of the owned address, cut to the page limit.
\* fetch-email.ts relies on the service listing newest first; the poller
\* itself does not fix the order, so both id orders are modelled.
ListingOrders == {"newestFirst", "oldestFirst"}

Listing(order, n) ==
  LET k == IF n < PageLimit THEN n ELSE PageLimit
  IN IF order = "newestFirst" THEN [i \in 1..k |-> n + 1 - i]
     ELSE [i \in 1..k |-> i]

\* mark: lastCheckedMessageId when the cycle began (history, kept while it fetches)
Idle == [pc |-> "idle", owner |-> "none", queue |-> <<>>, mark |-> Undefined]

StartsInFlight == {c \in CycleIds : cycles[c].owner = "start"}

FreshHandle == CHOOSE h \in Handles : h \notin timers /\ \A g \in Handles : g \notin timers => h <= g

\* ------------------------------------------------------------------- Init
PollerInit ==
  /\ polling = FALSE
  /\ pollInterval = Undefined
  /\ lastCheckedMessageId = Undefined
  /\ timers = {}
  /\ cycles = [c \in CycleIds |-> Idle]
  /\ remoteMax = 0
  /\ handlerLog = <<>>
  /\ maxFetched = 0
  /\ lastOp = "init"

\* ---------------------------------------------------------------- actions
\* A message for the owned address arrives at the remote service.
Arrive ==
  /\ remoteMax < MaxId
  /\ remoteMax' = remoteMax + 1
  /\ lastOp' = "arrive"
  /\ UNCHANGED <<polling, pollInterval, lastCheckedMessageId, timers, cycles, handlerLog, maxFetched, outsidePoller>>

\* start() if it armed the interval before the initial check
Start_ArmsFirst(c) ==
  IF polling
  THEN /\ lastOp' = "startWhileRunning"
       /\ UNCHANGED <<polling, pollInterval, lastCheckedMessageId, timers, cycles,
                      remoteMax, handlerLog, maxFetched, outsidePoller>>
  ELSE /\ cycles[c].pc = "idle"
       /\ Cardinality(timers) + Cardinality(StartsInFlight) < MaxTimers
       /\ polling' = TRUE
       /\ pollInterval' = FreshHandle
       /\ timers' = timers \cup {FreshHandle}
       /\ cycles' = [cycles EXCEPT ![c] = [pc |-> "fetch", owner |-> "timer", queue |-> <<>>,
                                          mark |-> lastCheckedMessageId]]
       /\ lastOp' = "start"
       /\ UNCHANGED <<lastCheckedMessageId, remoteMax, handlerLog, maxFetched, outsidePoller>>

\* start() without the already-running guard of lines 18-21.
Start_NoGuard(c) ==
  /\ cycles[c].pc = "idle"
  /\ Cardinality(timers) + Cardinality(StartsInFlight) < MaxTimers
  /\ polling' = TRUE
  /\ cycles' = [cycles EXCEPT ![c] = [pc |-> "fetch", owner |-> "start", queue |-> <<>>,
                                          mark |-> lastCheckedMessageId]]
  /\ lastOp' = IF polling THEN "startWhileRunning" ELSE "start"
  /\ UNCHANGED <<pollInterval, lastCheckedMessageId, timers, remoteMax, handlerLog, maxFetched, outsidePoller>>

\* start(): lines 17-31, up to the await of the initial check.
Start(c) ==
  IF polling
  THEN /\ lastOp' = "startWhileRunning"
       /\ UNCHANGED <<polling, pollInterval, lastCheckedMessageId, timers, cycles,
                      remoteMax, handlerLog, maxFetched, outsidePoller>>
  ELSE /\ cycles[c].pc = "idle"
       /\ Cardinality(timers) + Cardinality(StartsInFlight) < MaxTimers
       /\ polling' = TRUE
       /\ cycles' = [cycles EXCEPT ![c] = [pc |-> "fetch", owner |-> "start", queue |-> <<>>,
                                          mark |-> lastCheckedMessageId]]
       /\ lastOp' = "start"
       /\ UNCHANGED <<pollInterval, lastCheckedMessageId, timers, remoteMax, handlerLog, maxFetched, outsidePoller>>

\* stop() if it also forgot the last checked message id
Stop_ResetsMark ==
  IF ~polling
  THEN /\ lastOp' = "stopWhileStopped"
       /\ UNCHANGED <<polling, pollInterval, lastCheckedMessageId, timers, cycles,
                      remoteMax, handlerLog, maxFetched, outsidePoller>>
  ELSE /\ polling' = FALSE
       /\ lastCheckedMessageId' = Undefined
       /\ IF Truthy(pollInterval)
          THEN /\ timers' = timers \ {pollInterval}
               /\ pollInterval' = Undefined
          ELSE UNCHANGED <<timers, pollInterval>>
       /\ lastOp' = "stop"
       /\ UNCHANGED <<cycles, remoteMax, handlerLog, maxFetched, outsidePoller>>

\* stop(): lines 75-88.
Stop ==
  IF ~polling
  THEN /\ lastOp' = "stopWhileStopped"
       /\ UNCHANGED <<polling, pollInterval, lastCheckedMessageId, timers, cycles,
                      remoteMax, handlerLog, maxFetched, outsidePoller>>
  ELSE /\ polling' = FALSE
       /\ IF Truthy(pollInterval)
          THEN /\ timers' = timers \ {pollInterval}
               /\ pollInterval' = Undefined
          ELSE UNCHANGED <<timers, pollInterval>>
       /\ lastOp' = "stop"
       /\ UNCHANGED <<lastCheckedMessageId, cycles, remoteMax, handlerLog, maxFetched, outsidePoller>>

\* The setInterval callback (lines 51-72) fires: it calls checkForNewEmails()
\* whatever the state of earlier invocations.
TimerFire(t, c) ==
  /\ t \in timers
  /\ cycles[c].pc = "idle"
  /\ cycles' = [cycles EXCEPT ![c] = [pc |-> "fetch", owner |-> "timer", queue |-> <<>>,
                                          mark |-> lastCheckedMessageId]]
  /\ lastOp' = "timerFire"
  /\ UNCHANGED <<polling, pollInterval, lastCheckedMessageId, timers, remoteMax, handlerLog, maxFetched, outsidePoller>>

\* checkForNewEmails() returns (normally, or after its catch swallowed an
\* error).  When it was start()'s initial check, start() goes on to arm the
\* interval (lines 50-72) without looking at this.polling again.
Finish(c) ==
  /\ cycles' = [cycles EXCEPT ![c] = Idle]
  /\ IF cycles[c].owner = "start"
     THEN /\ pollInterval' = FreshHandle
          /\ timers' = timers \cup {FreshHandle}
     ELSE UNCHANGED <<pollInterval, timers>>

\* the dispatch if it looked at this.polling: after stop() the cycle ends
\* without handing its messages to the handler
Invoke_IfPolling(c, q) ==
  IF polling
  THEN /\ handlerLog' = Append(handlerLog, Head(q))
       /\ cycles' = [cycles EXCEPT ![c].pc = "exec", ![c].queue = q, ![c].mark = Undefined]
       /\ UNCHANGED <<pollInterval, timers>>
  ELSE Finish(c) /\ UNCHANGED handlerLog

\* processNewEmail(m) is invoked for the head of the cycle's new messages.
Invoke(c, q) ==
  /\ handlerLog' = Append(handlerLog, Head(q))
  /\ cycles' = [cycles EXCEPT ![c].pc = "exec", ![c].queue = q, ![c].mark = Undefined]
  /\ UNCHANGED <<pollInterval, timers>>

NewMessages_Unfiltered(page) == page

NewMessages(page) ==
  IF Truthy(lastCheckedMessageId) THEN Filter(page, lastCheckedMessageId) ELSE page

\* the mark taken from the last element of the page instead of Math.max
LatestMessageId_Last(page) == page[Len(page)]

LatestMessageId(page) == Max(Range(page))

\* checkForNewEmails' catch with the error rethrown and escaping start():
\* the cycle ends and start() never reaches setInterval.
OnFetchError_Escapes(c) ==
  /\ cycles' = [cycles EXCEPT ![c] = Idle]
  /\ UNCHANGED <<pollInterval, timers>>

\* checkForNewEmails' catch, lines 127-147: the error is logged and the
\* invocation returns normally.
OnFetchError(c) == Finish(c)

\* fetchMessages() settles: lines 95-125, up to the first handler's await.
FetchReturn(c, ok, order) ==
  /\ cycles[c].pc = "fetch"
  /\ lastOp' = IF ok THEN "fetchOk" ELSE "fetchFail"
  /\ UNCHANGED <<polling, remoteMax, outsidePoller>>
  /\ IF ~ok
     THEN OnFetchError(c) /\ UNCHANGED <<lastCheckedMessageId, handlerLog, maxFetched>>
     ELSE LET page == Listing(order, remoteMax)
              newMessages == NewMessages(page)
          IN /\ maxFetched' = Max({maxFetched} \cup Range(page))
             /\ IF Len(page) = 0 \/ Len(newMessages) = 0
                THEN Finish(c) /\ UNCHANGED <<lastCheckedMessageId, handlerLog>>
                ELSE /\ lastCheckedMessageId' = LatestMessageId(page)
                     /\ Invoke(c, newMessages)

\* the for-loop if a rejected handler ended it: the rest of the batch is dropped
AfterHandler_Abort(c, ok) ==
  IF ok /\ Len(cycles[c].queue) > 1
  THEN Invoke(c, Tail(cycles[c].queue))
  ELSE Finish(c) /\ UNCHANGED handlerLog

\* the for-loop if a message whose handler failed were handed to it again
AfterHandler_Redispatch(c, ok) ==
  IF ~ok
  THEN Invoke(c, cycles[c].queue)
  ELSE IF Len(cycles[c].queue) > 1
  THEN Invoke(c, Tail(cycles[c].queue))
  ELSE Finish(c) /\ UNCHANGED handlerLog

\* lines 124-126 after processNewEmail returned: its try/catch (lines 154-222)
\* makes a rejected execAsync return like a resolved one.
AfterHandler(c, ok) ==
  IF Len(cycles[c].queue) > 1
  THEN Invoke(c, Tail(cycles[c].queue))
  ELSE Finish(c) /\ UNCHANGED handlerLog

\* execAsync() of the handler settles (resolved or rejected: processNewEmail
\* catches the rejection), and the for-loop of lines 124-126 goes on.
HandlerSettle(c, ok) ==
  /\ cycles[c].pc = "exec"
  /\ lastOp' = IF ok THEN "handlerOk" ELSE "handlerFail"
  /\ UNCHANGED <<polling, remoteMax, lastCheckedMessageId, maxFetched, outsidePoller>>
  /\ AfterHandler(c, ok)

Next ==
  \/ Arrive
  \/ \E c \in CycleIds : Start(c)
  \/ Stop
  \/ \E t \in Handles, c \in CycleIds : TimerFire(t, c)
  \/ \E c \in CycleIds, ok \in BOOLEAN, order \in ListingOrders : FetchReturn(c, ok, order)
  \/ \E c \in CycleIds, ok \in BOOLEAN : HandlerSettle(c, ok)


\* ============================================ AuthService and ApiClient
Tokens == 1..MaxTokens
Bodies == 1..MaxBodies

\* expires_at of a login response, as minutes after the login
ExpiryOffsets == {4, 5, 6}

\* Strings are sequences of characters.
Str401 == <<"4", "0", "1">>
MsgAuthFailed == <<"A", "u", "t", "h", "e", "n", "t", "i", "c", "a", "t", "i", "o", "n", " ", "f", "a", "i", "l", "e", "d", " ", "(", "4", "0", "1", ")">>
MsgPrefix == <<"A", "P", "I", " ", "r", "e", "q", "u", "e", "s", "t", " ", "f", "a", "i", "l", "e", "d", ":", " ">>
MsgFetchFailed == <<"f", "e", "t", "c", "h", " ", "f", "a", "i", "l", "e", "d">>
MsgTimeout == <<"T", "h", "e", " ", "o", "p", "e", "r", "a", "t", "i", "o", "n", " ", "w", "a", "s", " ", "a", "b", "o", "r", "t", "e", "d", " ", "d", "u", "e", " ", "t", "o", " ", "t", "i", "m", "e", "o", "u", "t">>
MsgNoToken == <<"N", "o", " ", "a", "u", "t", "h", "e", "n", "t", "i", "c", "a", "t", "i", "o", "n", " ", "t", "o", "k", "e", "n", " ", "a", "v", "a", "i", "l", "a", "b", "l", "e">>
MsgLoginFailed == <<"L", "o", "g", "i", "n", " ", "f", "a", "i", "l", "e", "d">>

\* error.message of the error body of a non-2xx response
ServerMessages == {<<>>, <<"S", "e", "r", "v", "e", "r", " ", "e", "r", "r", "o", "r">>, <<"U", "p", "s", "t", "r", "e", "a", "m", " ", "4", "0", "1">>}

StatusText(status) ==
  IF status = 401 THEN <<"U", "n", "a", "u", "t", "h", "o", "r", "i", "z", "e", "d">> ELSE <<"I", "n", "t", "e", "r", "n", "a", "l", " ", "S", "e", "r", "v", "e", "r", " ", "E", "r", "r", "o", "r">>

\* String.prototype.includes
Includes(s, sub) ==
  \E i \in 0..(Len(s) - Len(sub)) : SubSeq(s, i + 1, i + Len(sub)) = sub

\* What fetch() yields for one request attempt: a response (status 200, 401
\* or 500 with its JSON body), or an exception (status 0: network failure or
\* the AbortSignal timeout, with the exception's message).
Responses ==
  {[status |-> 200, body |-> b, message |-> <<>>] : b \in Bodies}
  \cup {[status |-> st, body |-> 0, message |-> m] : st \in {401, 500}, m \in ServerMessages}
  \cup {[status |-> 0, body |-> 0, message |-> m] : m \in {MsgFetchFailed, MsgTimeout}}

\* new Date(x).getTime() of a missing or unparsable expires_at
NaN == -1

\* What login()'s request yields (auth.ts lines 44-50): "ok" is a body with
\* success and data set, whose token may be missing and whose expires_at may
\* be missing or unparsable; "rejected" is a body without success or without
\* data; "network" is fetch() or response.json() throwing.
LoginResponses ==
  {[kind |-> "ok", token |-> t, expires |-> e] :
     t \in Tokens \cup {Undefined}, e \in ExpiryOffsets \cup {NaN}}
  \cup {[kind |-> k, token |-> Undefined, expires |-> 0] : k \in {"rejected", "network"}}

NoLogin == [kind |-> "none", token |-> Undefined, expires |-> 0]

\* ApiClient.makeRequest, lines 181-195: the error thrown for a response, or
\* <<>> when the response is returned.
ThrownMessage(r) ==
  IF r.status = 0 THEN r.message
  ELSE IF r.status = 200 THEN <<>>
  ELSE IF r.status = 401 THEN MsgAuthFailed
  ELSE MsgPrefix \o (IF r.message # <<>> THEN r.message ELSE StatusText(r.status))

\* makeAuthenticatedRequest, line 149: does the catch re-authenticate?
ShouldReauth(message) == Includes(message, Str401)

\* isTokenExpired without the 5 minute buffer
IsTokenExpired_NoSkew ==
  IF tokenExpiry = Undefined THEN TRUE
  ELSE IF tokenExpiry = NaN THEN FALSE
  ELSE now > tokenExpiry

\* isTokenExpired with >= in place of >
IsTokenExpired_Inclusive ==
  IF tokenExpiry = Undefined THEN TRUE
  ELSE IF tokenExpiry = NaN THEN FALSE
  ELSE now >= tokenExpiry - RefreshSkew

\* AuthService.isTokenExpired; a comparison with an Invalid Date is false
IsTokenExpired ==
  IF tokenExpiry = Undefined THEN TRUE
  ELSE IF tokenExpiry = NaN THEN FALSE
  ELSE now > tokenExpiry - RefreshSkew

\* AuthService.isAuthenticated
IsAuthenticated == Truthy(token) /\ ~IsTokenExpired

\* ensureAuthenticated if it logged in on every call
NeedsLogin_Always == TRUE

\* the condition of ensureAuthenticated (auth.ts line 61)
NeedsLogin == ~Truthy(token) \/ IsTokenExpired

\* getAuthHeaders without its check of the token
AuthHeaders_Unchecked(tk) == [called |-> TRUE, thrown |-> FALSE, bearer |-> tk]

\* AuthService.getAuthHeaders with the stored token tk: the header map (its
\* bearer token) or the thrown error
AuthHeaders(tk) ==
  IF ~Truthy(tk) THEN [called |-> TRUE, thrown |-> TRUE, bearer |-> Undefined]
  ELSE [called |-> TRUE, thrown |-> FALSE, bearer |-> tk]

NoHeaders == [called |-> FALSE, thrown |-> FALSE, bearer |-> Undefined]

\* login: the last login response of the call; token0: the stored token when
\* the call began (both history)
NoCall ==
  [pc |-> "idle", ensured |-> FALSE, attempts |-> 0, logins |-> 0, forced |-> 0,
   responses |-> <<>>,
   sent |-> <<>>, result |-> "none", value |-> 0, error |-> <<>>,
   login |-> NoLogin, token0 |-> Undefined]

\* The call ends by throwing an error to its caller.
Throw(c, message) == [c EXCEPT !.pc = "done", !.result = "error", !.error = message]

\* a request attempt that carries the token the call began with
SendAttempt_Stale(c, tk, nextPc) ==
  IF AuthHeaders(c.token0).thrown THEN Throw(c, MsgNoToken)
  ELSE [c EXCEPT !.pc = nextPc, !.attempts = @ + 1,
                 !.sent = Append(@, AuthHeaders(c.token0).bearer)]

\* getAuthHeaders() and the fetch() of one request attempt, tk being the
\* stored token (api-client.ts lines 138-146 and 153-161).
SendAttempt(c, tk, nextPc) ==
  IF AuthHeaders(tk).thrown THEN Throw(c, MsgNoToken)
  ELSE [c EXCEPT !.pc = nextPc, !.attempts = @ + 1,
                 !.sent = Append(@, AuthHeaders(tk).bearer)]

\* makeAuthenticatedRequest's catch (lines 147-164) when it re-authenticates
\* without calling login(): the retry is sent at once with the old token.
Reauth_NoLogin(c) == SendAttempt(c, token, "attempt2")

\* makeAuthenticatedRequest's catch, lines 150-151: login() is called.
Reauth(c) == [c EXCEPT !.pc = "forcedLogin", !.logins = @ + 1, !.forced = @ + 1]

\* makeAuthenticatedRequest's catch if the retry were caught like the first
\* attempt: every 401 re-authenticates and retries.
OnAttemptError_RetryLoop(c, message) ==
  IF ShouldReauth(message) THEN Reauth(c) ELSE Throw(c, message)

\* makeAuthenticatedRequest's catch, lines 147-164: only the first attempt is
\* inside the try; an error of the retry propagates.
OnAttemptError(c, message) ==
  IF c.pc = "attempt1" /\ ShouldReauth(message) THEN Reauth(c) ELSE Throw(c, message)

ApiInit ==
  /\ token = Undefined
  /\ tokenExpiry = Undefined
  /\ now = 0
  /\ call = NoCall
  /\ lastHeaders = NoHeaders
  /\ calls = [k \in Callers |-> NoCall]

\* Time passes.
Tick ==
  /\ now < MaxNow
  /\ now' = now + 1
  /\ lastOp' = "tick"
  /\ UNCHANGED <<token, tokenExpiry, call, lastHeaders, outsideApi>>

\* A logical call (fetchMessages, sendEmail, ...) begins: it awaits
\* ensureAuthenticated() and, if that does not log in, goes on to
\* makeAuthenticatedRequest's first attempt (lines 137-146).
CallBegin ==
  /\ call.pc = "idle"
  /\ call' = IF NeedsLogin
             THEN [NoCall EXCEPT !.pc = "ensureLogin", !.ensured = TRUE, !.logins = 1,
                                 !.token0 = token]
             ELSE SendAttempt([NoCall EXCEPT !.token0 = token], token, "attempt1")
  /\ lastOp' = "callBegin"
  /\ UNCHANGED <<token, tokenExpiry, now, lastHeaders, outsideApi>>

\* the forced re-login if its failure were swallowed: the retry is sent with
\* the token that is stored
LoginReturn_Swallowed(r) ==
  /\ call.pc \in {"ensureLogin", "forcedLogin"}
  /\ lastOp' = "loginReturn"
  /\ UNCHANGED <<now, lastHeaders, outsideApi>>
  /\ LET c == [call EXCEPT !.login = r]
     IN IF r.kind \in {"network", "rejected"}
        THEN /\ call' = IF call.pc = "forcedLogin"
                        THEN SendAttempt(c, token, "attempt2")
                        ELSE Throw(c, IF r.kind = "network" THEN MsgFetchFailed ELSE MsgLoginFailed)
             /\ UNCHANGED <<token, tokenExpiry>>
        ELSE /\ token' = r.token
             /\ tokenExpiry' = IF r.expires = NaN THEN NaN ELSE now + r.expires
             /\ call' = SendAttempt(c, r.token,
                                    IF call.pc = "ensureLogin" THEN "attempt1" ELSE "attempt2")

\* login() if it dropped the stored session before throwing
LoginReturn_ClearsOnFailure(r) ==
  /\ call.pc \in {"ensureLogin", "forcedLogin"}
  /\ lastOp' = "loginReturn"
  /\ UNCHANGED <<now, lastHeaders, outsideApi>>
  /\ LET c == [call EXCEPT !.login = r]
     IN IF r.kind \in {"network", "rejected"}
        THEN /\ call' = Throw(c, IF r.kind = "network" THEN MsgFetchFailed ELSE MsgLoginFailed)
             /\ token' = Undefined
             /\ tokenExpiry' = Undefined
        ELSE /\ token' = r.token
             /\ tokenExpiry' = IF r.expires = NaN THEN NaN ELSE now + r.expires
             /\ call' = SendAttempt(c, r.token,
                                    IF call.pc = "ensureLogin" THEN "attempt1" ELSE "attempt2")

\* login()'s request settles (auth.ts lines 44-57), for ensureAuthenticated()
\* or for the forced re-login; when login() returns, the token and the expiry
\* of the response are stored as they are and the next request attempt is
\* sent with the stored token.
LoginReturn(r) ==
  /\ call.pc \in {"ensureLogin", "forcedLogin"}
  /\ lastOp' = "loginReturn"
  /\ UNCHANGED <<now, lastHeaders, outsideApi>>
  /\ LET c == [call EXCEPT !.login = r]
     IN IF r.kind = "network"
        THEN /\ call' = Throw(c, MsgFetchFailed)
             /\ UNCHANGED <<token, tokenExpiry>>
        ELSE IF r.kind = "rejected"
        THEN /\ call' = Throw(c, MsgLoginFailed)
             /\ UNCHANGED <<token, tokenExpiry>>
        ELSE /\ token' = r.token
             /\ tokenExpiry' = IF r.expires = NaN THEN NaN ELSE now + r.expires
             /\ call' = SendAttempt(c, r.token,
                                    IF call.pc = "ensureLogin" THEN "attempt1" ELSE "attempt2")

\* A request attempt settles: makeRequest (lines 167-196) returns the body or
\* throws, and makeAuthenticatedRequest's catch (lines 147-164) decides.
AttemptReturn(r) ==
  /\ call.pc \in {"attempt1", "attempt2"}
  /\ lastOp' = "attemptReturn"
  /\ UNCHANGED <<token, tokenExpiry, now, lastHeaders, outsideApi>>
  /\ LET c == [call EXCEPT !.responses = Append(@, [status |-> r.status, body |-> r.body])]
         message == ThrownMessage(r)
     IN call' =
          IF message = <<>>
          THEN [c EXCEPT !.pc = "done", !.result = "ok", !.value = r.body]
          ELSE OnAttemptError(c, message)

\* The caller has received the outcome; the client is free for the next call.
CallEnd ==
  /\ call.pc = "done"
  /\ call' = NoCall
  /\ lastOp' = "callEnd"
  /\ UNCHANGED <<token, tokenExpiry, now, lastHeaders, outsideApi>>

\* A collaborator calls getAuthHeaders() on its own (auth.ts lines 66-74).
GetAuthHeaders ==
  /\ lastHeaders' = AuthHeaders(token)
  /\ lastOp' = "getAuthHeaders"
  /\ UNCHANGED <<token, tokenExpiry, now, call, outsideApi>>

\* clearToken() if it dropped only the expiry
ClearToken_OnlyExpiry ==
  /\ tokenExpiry' = Undefined
  /\ lastOp' = "clearToken"
  /\ UNCHANGED <<token, now, call, lastHeaders, outsideApi>>

\* clearToken(), auth.ts lines 113-116.
ClearToken ==
  /\ token' = Undefined
  /\ tokenExpiry' = Undefined
  /\ lastOp' = "clearToken"
  /\ UNCHANGED <<now, call, lastHeaders, outsideApi>>

\* 24 * 60 * 60 * 1000 ms, in minutes
RegisterLifetime == 1440

\* What register()'s request yields (auth.ts lines 19-26), as for login();
\* the body's token may be missing.
RegisterResponses ==
  {[kind |-> "ok", token |-> t] : t \in Tokens \cup {Undefined}}
  \cup {[kind |-> k, token |-> Undefined] : k \in {"rejected", "network"}}

\* register() if it stored no expiry with the token
RegisterExpiry_None == Undefined

\* the expiry register() stores: 24 hours from now, whatever the server says
RegisterExpiry == now + RegisterLifetime

\* register()'s request settles (auth.ts lines 19-33): on success the token
\* of the body is stored with RegisterExpiry; otherwise register() throws.
\* Its one caller, registerCommand (commands/register.ts lines 7-13), runs it
\* on a client of its own with no other call in progress.
RegisterReturn(r) ==
  /\ call.pc = "idle"
  /\ IF r.kind = "ok"
     THEN /\ token' = r.token
          /\ tokenExpiry' = RegisterExpiry
          /\ lastOp' = "registerOk"
     ELSE /\ lastOp' = "registerFail"
          /\ UNCHANGED <<token, tokenExpiry>>
  /\ UNCHANGED <<now, call, lastHeaders, outsideApi>>

NextApi ==
  \/ Tick
  \/ CallBegin
  \/ \E r \in LoginResponses : LoginReturn(r)
  \/ \E r \in Responses : AttemptReturn(r)
  \/ CallEnd
  \/ GetAuthHeaders
  \/ ClearToken
  \/ \E r \in RegisterResponses : RegisterReturn(r)

\* ------------------------------------ one ApiClient with several users
\* The tools of one McpEmailServer share its ApiClient (server.ts lines
\* 22-33); each handler invocation is an async call of its own, so logical
\* calls of several users interleave at their awaits.
\* What the service answers here: the body or a 401, and a well-formed login.
SharedResponses == {r \in Responses : r.status \in {200, 401} /\ r.message = <<>>}

SharedLoginResponses ==
  {r \in LoginResponses : r.kind = "rejected"
                            \/ (r.kind = "ok" /\ Truthy(r.token) /\ r.expires = 6)}

\* user k begins a logical call: ensureAuthenticated(), then the first attempt
SharedBegin(k) ==
  /\ calls[k].pc = "idle"
  /\ calls' = [calls EXCEPT ![k] =
                 IF NeedsLogin
                 THEN [NoCall EXCEPT !.pc = "ensureLogin", !.ensured = TRUE, !.logins = 1,
                                     !.token0 = token]
                 ELSE SendAttempt([NoCall EXCEPT !.token0 = token], token, "attempt1")]
  /\ lastOp' = "sharedBegin"
  /\ UNCHANGED <<token, tokenExpiry, now, call, lastHeaders, pollerVarsButOp, toolVars, live>>

\* the login() of user k's call settles
SharedLoginReturn(k, r) ==
  /\ calls[k].pc \in {"ensureLogin", "forcedLogin"}
  /\ lastOp' = "sharedLoginReturn"
  /\ UNCHANGED <<now, call, lastHeaders, pollerVarsButOp, toolVars, live>>
  /\ LET c == [calls[k] EXCEPT !.login = r]
     IN IF r.kind # "ok"
        THEN /\ calls' = [calls EXCEPT ![k] = Throw(c, MsgLoginFailed)]
             /\ UNCHANGED <<token, tokenExpiry>>
        ELSE /\ token' = r.token
             /\ tokenExpiry' = now + r.expires
             /\ calls' = [calls EXCEPT ![k] =
                            SendAttempt(c, r.token,
                                        IF calls[k].pc = "ensureLogin" THEN "attempt1"
                                                                       ELSE "attempt2")]

\* a request attempt of user k's call settles
SharedAttemptReturn(k, r) ==
  /\ calls[k].pc \in {"attempt1", "attempt2"}
  /\ lastOp' = "sharedAttemptReturn"
  /\ UNCHANGED <<token, tokenExpiry, now, call, lastHeaders, pollerVarsButOp, toolVars, live>>
  /\ LET c == [calls[k] EXCEPT !.responses = Append(@, [status |-> r.status, body |-> r.body])]
         message == ThrownMessage(r)
     IN calls' = [calls EXCEPT ![k] =
                    IF message = <<>>
                    THEN [c EXCEPT !.pc = "done", !.result = "ok", !.value = r.body]
                    ELSE OnAttemptError(c, message)]

\* user k has received the outcome of its call
SharedEnd(k) ==
  /\ calls[k].pc = "done"
  /\ calls' = [calls EXCEPT ![k] = NoCall]
  /\ lastOp' = "sharedEnd"
  /\ UNCHANGED <<token, tokenExpiry, now, call, lastHeaders, pollerVarsButOp, toolVars, live>>

NextShared ==
  \/ \E k \in Callers : SharedBegin(k)
  \/ \E k \in Callers, r \in SharedLoginResponses : SharedLoginReturn(k, r)
  \/ \E k \in Callers, r \in SharedResponses : SharedAttemptReturn(k, r)
  \/ \E k \in Callers : SharedEnd(k)

\* ============================================== the tools and the mailbox
\* is_read as the service serves it: 1 or 0 (API.md, Get Single Message)
IsRead(id) == IF id \in readIds THEN 1 ELSE 0

\* What a PUT /api/v1/messages/{id}/read comes to: "ok" (success: true),
\* "refused" (a 2xx body without success), "error" (makeAuthenticatedRequest
\* throws: 404, 401 twice, network), "lost" (the service marked the message
\* but the response did not arrive: timeout).  An id the service does not
\* hold cannot be marked.
MarkOutcomes(id) == IF id \in 1..remoteMax THEN {"ok", "refused", "error", "lost"}
                    ELSE {"refused", "error"}

\* the service's side of the request: the read flags afterwards
ServiceMarkRead(id, r) == IF r \in {"ok", "lost"} THEN readIds \cup {id} ELSE readIds

\* markAsRead if it did not look at response.success
MarkAsReadResult_Unchecked(r) == IF r \in {"ok", "refused"} THEN "ok" ELSE "error"

\* ApiClient.markAsRead (api-client.ts lines 82-95): returns, or throws
MarkAsReadResult(r) == IF r = "ok" THEN "ok" ELSE "error"

\* marked: the ids for which markAsRead has returned (history)
NoClient == [op |-> "none", id |-> 0, result |-> "none", is_read |-> 0, marked |-> {}]

\* a client calls markAsRead(id) and it settles
ClientMarkAsRead(id, r) ==
  /\ r \in MarkOutcomes(id)
  /\ readIds' = ServiceMarkRead(id, r)
  /\ client' = [op |-> "markAsRead", id |-> id, result |-> MarkAsReadResult(r),
                is_read |-> 0,
                marked |-> IF MarkAsReadResult(r) = "ok" THEN client.marked \cup {id}
                           ELSE client.marked]
  /\ lastOp' = "markAsRead"
  /\ UNCHANGED <<tool, pollerVarsButOp, apiVars, live>>

\* a client calls fetchMessageById(id) and it settles (api-client.ts lines
\* 67-80): the message as the service holds it, or an error
ClientFetchMessageById(id, ok) ==
  /\ client' = IF ok /\ id \in 1..remoteMax
               THEN [client EXCEPT !.op = "fetchMessageById", !.id = id, !.result = "ok",
                                   !.is_read = IsRead(id)]
               ELSE [client EXCEPT !.op = "fetchMessageById", !.id = id, !.result = "error",
                                   !.is_read = 0]
  /\ lastOp' = "fetchMessageById"
  /\ UNCHANGED <<readIds, tool, pollerVarsButOp, apiVars, live>>

\* ------------------------------------------------------ the tool handlers
ToolNames == {"send_email", "fetch_email", "list_inbox", "reply_email"}

\* the text each handler's catch puts before the error message
ErrSendEmail == <<"E", "r", "r", "o", "r", " ", "s", "e", "n", "d", "i", "n", "g", " ", "e", "m", "a", "i", "l", ":", " ">>
ErrFetchEmail == <<"E", "r", "r", "o", "r", " ", "f", "e", "t", "c", "h", "i", "n", "g", " ", "e", "m", "a", "i", "l", ":", " ">>
ErrListInbox == <<"E", "r", "r", "o", "r", " ", "l", "i", "s", "t", "i", "n", "g", " ", "i", "n", "b", "o", "x", ":", " ">>
ErrReplyEmail == <<"E", "r", "r", "o", "r", " ", "s", "e", "n", "d", "i", "n", "g", " ", "r", "e", "p", "l", "y", ":", " ">>

ErrorPrefix(name) ==
  IF name = "send_email" THEN ErrSendEmail
  ELSE IF name = "fetch_email" THEN ErrFetchEmail
  ELSE IF name = "list_inbox" THEN ErrListInbox
  ELSE ErrReplyEmail

MsgUnknown == <<"U", "n", "k", "n", "o", "w", "n", " ", "e", "r", "r", "o", "r", " ", "o", "c", "c", "u", "r", "r", "e", "d">>
\* abridged: the first sentence of the message
MsgNoRecipient == <<"N", "o", " ", "r", "e", "c", "i", "p", "i", "e", "n", "t", " ", "s", "p", "e", "c", "i", "f", "i", "e", "d">>
MsgNotAddressed == <<"i", "s", " ", "n", "o", "t", " ", "a", "d", "d", "r", "e", "s", "s", "e", "d", " ", "t", "o">>
\* the message of the ZodError of a failed schema.parse (abridged)
MsgInvalid == <<"I", "n", "v", "a", "l", "i", "d", " ", "i", "n", "p", "u", "t">>

\* the beginnings of the texts of the normal responses
TextSent == <<"E", "m", "a", "i", "l", " ", "s", "e", "n", "t", " ", "s", "u", "c", "c", "e", "s", "s", "f", "u", "l", "l", "y", " ", "t", "o", " ">>
TextMessage == <<"F", "r", "o", "m", ":", " ">>
TextNoEmails == <<"N", "o", " ", "e", "m", "a", "i", "l", "s", " ", "f", "o", "u", "n", "d", " ", "f", "o", "r", " ">>
TextNoUnread == <<"N", "o", " ", "u", "n", "r", "e", "a", "d", " ", "e", "m", "a", "i", "l", "s", " ", "f", "o", "u", "n", "d", " ", "f", "o", "r", " ">>
TextInbox == <<"#", " ", "E", "m", "a", "i", "l", " ", "I", "n", "b", "o", "x", " ", "(">>
TextReplied == <<"R", "e", "p", "l", "y", " ", "s", "e", "n", "t", " ", "s", "u", "c", "c", "e", "s", "s", "f", "u", "l", "l", "y", "!">>

\* What an ApiClient method throws: an Error with its message, or a value
\* that is not an Error.
Thrown ==
  {[isError |-> TRUE, message |-> m] : m \in {MsgAuthFailed, MsgFetchFailed, MsgTimeout}}
  \cup {[isError |-> FALSE, message |-> <<>>]}

AnError(m) == [isError |-> TRUE, message |-> m]

\* recipient strings: no address and two addresses
AddrUser == <<"u", "@", "x">>
AddrOther == <<"o", "@", "x">>
NotAnAddress == <<"o", "x">>

\* z.string().email(): an abridged test, the string holds an "@"
IsEmail(x) == \E i \in 1..Len(x) : x[i] = "@"

\* an optional string that is undefined
NoString == <<"undefined">>

\* JavaScript truthiness of an optional string
StrTruthy(x) == x # NoString /\ x # <<>>

\* a || b
OrElse(a, b) == IF StrTruthy(a) THEN a ELSE b

\* The listing fetch_email asks for (limit: 50, offset: 0), cut to the page
\* limit.
ToolListing(order, n) ==
  LET k == IF n < ToolPageLimit THEN n ELSE ToolPageLimit
  IN IF order = "newestFirst" THEN [i \in 1..k |-> n + 1 - i]
     ELSE [i \in 1..k |-> i]

\* messages.filter(msg => !msg.is_read)
RECURSIVE Unread(_)
Unread(page) ==
  IF page = <<>> THEN <<>>
  ELSE IF ~Truthy(IsRead(Head(page))) THEN <<Head(page)>> \o Unread(Tail(page))
       ELSE Unread(Tail(page))

\* apiLog: the ApiClient methods the invocation has called, with the message
\* id or recipient; unread0, order: the unread ids the service held and the
\* order of its listing when fetch_email listed; valid, to, userEmail: whether
\* the parameters passed the schema, and send_email's `to` and USEREMAIL;
\* fetched: whether the message fetched by id was addressed to the instance
\* ("mine") or not ("other") (all history)
NoTool ==
  [name |-> "none", pc |-> "idle", step |-> "none", id |-> 0, byId |-> FALSE,
   outcome |-> "none", text |-> <<>>, failed |-> FALSE, apiLog |-> <<>>,
   listed |-> FALSE, unread0 |-> {}, order |-> "none",
   valid |-> TRUE, to |-> NoString, userEmail |-> NoString, fetched |-> "none"]

\* the handler returns a response with this text
Respond(t, text) == [t EXCEPT !.pc = "done", !.step = "none", !.outcome = "response", !.text = text]

\* the handler awaits a method of the ApiClient
Await(t, step, arg, to) ==
  [t EXCEPT !.pc = "api", !.step = step,
            !.apiLog = Append(@, [op |-> step, arg |-> arg, to |-> to])]

\* a handler without its try/catch: the error leaves the handler
Caught_Rethrows(t, thrown) ==
  [t EXCEPT !.pc = "done", !.step = "none", !.outcome = "rejected", !.failed = TRUE]

\* the catch of each handler (send-email.ts lines 48-61, fetch-email.ts lines
\* 107-120, reply-email.ts lines 77-90, list_inbox alike)
Caught(t, thrown) ==
  [Respond(t, ErrorPrefix(t.name) \o (IF thrown.isError THEN thrown.message ELSE MsgUnknown))
     EXCEPT !.failed = TRUE]

\* validatedParams.to || config.userEmail || ''
Recipient(to, userEmail) == OrElse(OrElse(to, userEmail), <<>>)

\* send_email without its check of the recipient
SendEmailStart_NoCheck(t, to, userEmail) == Await(t, "sendEmail", 0, Recipient(to, userEmail))

\* send-email.ts lines 18-32
SendEmailStart(t, to, userEmail) ==
  IF ~StrTruthy(Recipient(to, userEmail)) THEN Caught(t, AnError(MsgNoRecipient))
  ELSE Await(t, "sendEmail", 0, Recipient(to, userEmail))

ToolInit ==
  /\ readIds = {}
  /\ client = NoClient
  /\ tool = NoTool

\* A tool handler is invoked: schema.parse, then up to its first await.
\* v: the parameters other than `to` pass the schema.
ToolInvoke(name, v, to, userEmail, emailId) ==
  /\ tool.pc = "idle"
  /\ LET valid == v /\ (name = "send_email" => (to = NoString \/ IsEmail(to)))
         t == IF name = "send_email"
              THEN [NoTool EXCEPT !.name = name, !.valid = valid, !.to = to,
                                  !.userEmail = userEmail]
              ELSE [NoTool EXCEPT !.name = name, !.valid = valid]
     IN tool' =
          IF ~valid THEN Caught(t, AnError(MsgInvalid))
          ELSE IF name = "send_email" THEN SendEmailStart(t, to, userEmail)
          ELSE IF name = "fetch_email"
               THEN IF emailId # Undefined
                    THEN Await([t EXCEPT !.byId = TRUE, !.id = emailId], "fetchMessageById", emailId, <<>>)
                    ELSE Await(t, "fetchMessages", 0, <<>>)
          ELSE IF name = "list_inbox" THEN Await(t, "fetchMessages", 0, <<>>)
          ELSE Await(t, "replyToMessage", 0, <<>>)
  /\ lastOp' = "toolInvoke"
  /\ UNCHANGED <<readIds, client, pollerVarsButOp, apiVars, live>>

\* fetch-email.ts lines 43-66, after fetchMessages returned the page
AfterListing(t, page) ==
  IF Len(page) = 0 THEN Respond(t, TextNoEmails)
  ELSE IF Len(Unread(page)) = 0 THEN Respond(t, TextNoUnread)
  ELSE Await([t EXCEPT !.id = Unread(page)[Len(Unread(page))]], "markAsRead",
             Unread(page)[Len(Unread(page))], <<>>)

\* fetch_email if it marked the message fetched by id without looking at its
\* recipient
AfterFetchById_NoCheck(t, mine) ==
  Await([t EXCEPT !.fetched = IF mine THEN "mine" ELSE "other"], "markAsRead", t.id, <<>>)

\* fetch-email.ts lines 26-31 and 71, after fetchMessageById returned the
\* message: the check of its recipient, then markAsRead
AfterFetchById(t, mine) ==
  IF ~mine THEN Caught([t EXCEPT !.fetched = "other"], AnError(MsgNotAddressed))
  ELSE Await([t EXCEPT !.fetched = "mine"], "markAsRead", t.id, <<>>)

\* The awaited ApiClient method (other than markAsRead) settles.  mine: the
\* message fetched by id is addressed to the instance.
ToolApiReturn(ok, thrown, order, mine) ==
  /\ tool.pc = "api"
  /\ tool.step # "markAsRead"
  /\ tool' =
       IF ~ok THEN Caught(tool, thrown)
       ELSE IF tool.step = "sendEmail" THEN Respond(tool, TextSent)
       ELSE IF tool.step = "replyToMessage" THEN Respond(tool, TextReplied)
       ELSE IF tool.step = "fetchMessageById"
            THEN IF tool.id \notin 1..remoteMax THEN Caught(tool, thrown)
                 ELSE AfterFetchById(tool, mine)
       ELSE IF tool.name = "list_inbox"
            THEN Respond(tool, IF remoteMax = 0 THEN TextNoEmails ELSE TextInbox)
       ELSE AfterListing([tool EXCEPT !.listed = TRUE, !.order = order,
                                      !.unread0 = (1..remoteMax) \ readIds],
                         ToolListing(order, remoteMax))
  /\ lastOp' = "toolApiReturn"
  /\ UNCHANGED <<readIds, client, pollerVarsButOp, apiVars, live>>

\* fetch_email's markAsRead settles (fetch-email.ts lines 69-106).
ToolMarkReturn(r, thrown) ==
  /\ tool.pc = "api"
  /\ tool.step = "markAsRead"
  /\ r \in MarkOutcomes(tool.id)
  /\ readIds' = ServiceMarkRead(tool.id, r)
  /\ tool' = IF MarkAsReadResult(r) = "ok" THEN Respond(tool, TextMessage)
             ELSE Caught(tool, thrown)
  /\ lastOp' = "toolMarkReturn"
  /\ UNCHANGED <<client, pollerVarsButOp, apiVars, live>>

\* The caller has the handler's response.
ToolEnd ==
  /\ tool.pc = "done"
  /\ tool' = NoTool
  /\ lastOp' = "toolEnd"
  /\ UNCHANGED <<readIds, client, pollerVarsButOp, apiVars, live>>

NextTools ==
  \/ Arrive
  \/ \E name \in ToolNames, v \in BOOLEAN,
        to \in {NoString, <<>>, NotAnAddress, AddrOther},
        userEmail \in {NoString, <<>>, AddrUser},
        emailId \in 0..MaxId : ToolInvoke(name, v, to, userEmail, emailId)
  \/ \E ok \in BOOLEAN, thrown \in Thrown, order \in ListingOrders, mine \in BOOLEAN :
        ToolApiReturn(ok, thrown, order, mine)
  \/ \E r \in {"ok", "refused", "error", "lost"}, thrown \in Thrown : ToolMarkReturn(r, thrown)
  \/ ToolEnd

NextClient ==
  \/ Arrive
  \/ \E id \in Ids, r \in {"ok", "refused", "error", "lost"} : ClientMarkAsRead(id, r)
  \/ \E id \in Ids, ok \in BOOLEAN : ClientFetchMessageById(id, ok)

\* -------------------------------------------------------- specifications
\* ------------------------------------------------------ the live command
\* pc: "off" (not run), "startup" (liveCommand awaits login() and then
\* start()), "waiting" (it awaits the promise that its signal handlers
\* resolve), "returned", "exited"; listeners: the listeners of SIGINT and of
\* SIGTERM in the order of their registration; signal, running, stopCalled,
\* code: the signal received, whether the poller was polling then, whether
\* stop() was called after it, and the exit code (history)
NoLive ==
  [pc |-> "off", listeners |-> <<>>, resolved |-> FALSE, signal |-> "none",
   running |-> FALSE, stopCalled |-> FALSE, code |-> -1]

LiveInit == live = NoLive

Signals == {"SIGINT", "SIGTERM"}

Alive == live.pc \in {"startup", "waiting"}

\* process.emit of a signal: the listeners run synchronously in the order of
\* their registration.  index.ts's listener calls process.exit(0), which ends
\* the process at once; liveCommand's listener resolves the awaited promise.
RECURSIVE RunListeners(_, _)
RunListeners(ls, l) ==
  IF ls = <<>> THEN l
  ELSE IF Head(ls) = "index" THEN [l EXCEPT !.pc = "exited", !.code = 0]
  ELSE RunListeners(Tail(ls), [l EXCEPT !.resolved = TRUE])

\* index.ts is loaded: its listeners are registered (lines 112-121), main()
\* is called (line 137), liveCommand runs up to the await of login().
LiveMain ==
  /\ live.pc = "off"
  /\ ~polling
  /\ live' = [NoLive EXCEPT !.pc = "startup", !.listeners = <<"index">>]
  /\ lastOp' = "liveMain"
  /\ UNCHANGED <<pollerVarsButOp, apiVars, toolVars>>

\* login() throws: liveCommand's catch calls process.exit(1).
LiveLoginFail ==
  /\ live.pc = "startup"
  /\ ~polling
  /\ live' = [live EXCEPT !.pc = "exited", !.code = 1]
  /\ lastOp' = "liveLoginFail"
  /\ UNCHANGED <<pollerVarsButOp, apiVars, toolVars>>

\* login() returned: the poller is created and start() is called.
LiveStart(c) ==
  /\ live.pc = "startup"
  /\ ~polling
  /\ Start(c)

\* start() has returned: liveCommand registers its listeners and awaits the
\* promise they resolve (live.ts lines 32-54).
LiveStarted ==
  /\ live.pc = "startup"
  /\ polling
  /\ StartsInFlight = {}
  /\ live' = [live EXCEPT !.pc = "waiting", !.listeners = Append(@, "live")]
  /\ lastOp' = "liveStarted"
  /\ UNCHANGED <<pollerVarsButOp, apiVars, toolVars>>

\* SIGINT or SIGTERM is delivered to the process.  If it outlives its
\* listeners with the promise resolved, liveCommand goes on to its finally
\* block (lines 68-76), which calls emailPoller.stop(), and returns.
Signal(sig) ==
  /\ Alive
  /\ lastOp' = "signal"
  /\ UNCHANGED <<lastCheckedMessageId, cycles, remoteMax, handlerLog, maxFetched,
                 apiVars, toolVars>>
  /\ LET l == RunListeners(live.listeners, [live EXCEPT !.signal = sig, !.running = polling])
     IN IF l.pc = "exited"
        THEN /\ live' = l
             /\ UNCHANGED <<polling, pollInterval, timers>>
        ELSE IF l.resolved
        THEN /\ live' = [l EXCEPT !.pc = "returned", !.stopCalled = TRUE]
             /\ polling' = FALSE
             /\ timers' = IF polling /\ Truthy(pollInterval) THEN timers \ {pollInterval} ELSE timers
             /\ pollInterval' = IF polling THEN Undefined ELSE pollInterval
        ELSE /\ live' = l
             /\ UNCHANGED <<polling, pollInterval, timers>>

\* The live command: its poller runs while the process does.
NextLive ==
  \/ Arrive
  \/ LiveMain
  \/ LiveLoginFail
  \/ \E c \in CycleIds : LiveStart(c)
  \/ LiveStarted
  \/ \E sig \in Signals : Signal(sig)
  \/ \E t \in Handles, c \in CycleIds : Alive /\ TimerFire(t, c)
  \/ \E c \in CycleIds, ok \in BOOLEAN, order \in ListingOrders : Alive /\ FetchReturn(c, ok, order)
  \/ \E c \in CycleIds, ok \in BOOLEAN : Alive /\ HandlerSettle(c, ok)

Init == PollerInit /\ ApiInit /\ ToolInit /\ LiveInit

\* the EmailPoller, its timer and the remote mailbox
Spec == Init /\ [][Next]_vars

\* one ApiClient with its AuthService, the clock and the remote service
SpecApi == Init /\ [][NextApi]_vars

\* one ApiClient with its AuthService used by several callers at once
SpecShared == Init /\ [][NextShared]_vars

\* a client of the remote mailbox: markAsRead and fetchMessageById
SpecClient == Init /\ [][NextClient]_vars

\* the MCP tool handlers over the ApiClient and the remote mailbox
SpecTools == Init /\ [][NextTools]_vars

\* the process of the live command with its poller
SpecLive == Init /\ [][NextLive]_vars

\* ----------------------------------------------------------- ApiClient
FirstStatus == IF Len(call.responses) >= 1 THEN call.responses[1].status ELSE -1

\* C5: first attempt answered 401, retry answered 2xx: the call succeeds with
\* the retry's body after exactly one forced login() and exactly two request
\* attempts.
C5_RetrySucceeds ==
  (call.pc = "done" /\ FirstStatus = 401 /\ Len(call.responses) = 2
     /\ call.responses[2].status = 200)
    => /\ call.result = "ok"
       /\ call.value = call.responses[2].body
       /\ call.forced = 1
       /\ call.attempts = 2
       /\ Len(call.sent) = 2

\* A call that was answered 401, then 200, has completed.
C5_Witness ==
  /\ call.pc = "done"
  /\ call.responses = <<[status |-> 401, body |-> 0], [status |-> 200, body |-> 2]>>
  /\ call.result = "ok"

\* C6 as stated: both attempts answered 401: the call fails with the
\* authentication error after 2 logins and 2 request attempts in total.
C6_DoubleRejectTwoLogins ==
  (call.pc = "done" /\ Len(call.responses) = 2 /\ FirstStatus = 401
     /\ call.responses[2].status = 401)
    => /\ call.result = "error"
       /\ call.error = MsgAuthFailed
       /\ call.logins = 2
       /\ call.attempts = 2

\* C6, amended: both attempts answered 401: the call fails with the
\* authentication error after exactly one forced re-login and two request
\* attempts; the logins of the call are that one and, only when the call began
\* without a valid session, the login of ensureAuthenticated().  No third
\* attempt is ever made.
C6_DoubleRejectTerminal ==
  /\ call.attempts <= 2 /\ call.forced <= 1 /\ Len(call.responses) <= 2
  /\ (call.pc = "done" /\ Len(call.responses) = 2 /\ FirstStatus = 401
        /\ call.responses[2].status = 401)
       => /\ call.result = "error"
          /\ call.error = MsgAuthFailed
          /\ call.forced = 1
          /\ call.attempts = 2
          /\ call.logins = (IF call.ensured THEN 2 ELSE 1)

\* A call answered 401 twice has failed; it began with a valid session.
C6_Witness ==
  /\ call.pc = "done"
  /\ Len(call.responses) = 2
  /\ FirstStatus = 401 /\ call.responses[2].status = 401
  /\ ~call.ensured
  /\ call.result = "error"

\* C7: a first attempt that fails with anything but a 401 response (another
\* API error whatever its message, a network failure, a timeout) propagates
\* after exactly one request attempt, without re-login or retry.
C7_NoBlindRetry ==
  (FirstStatus \notin {-1, 200, 401})
    => call.attempts = 1 /\ call.forced = 0 /\ call.pc = "done" /\ call.result = "error"

\* ------------------------------------------------------------ EmailPoller
ActiveCycles == {c \in CycleIds : cycles[c].pc # "idle"}

CycleBegins == \E c \in CycleIds : cycles[c].pc = "idle" /\ cycles'[c].pc = "fetch"

PollerFields == <<polling, pollInterval, lastCheckedMessageId, timers, cycles, handlerLog>>

\* C1: no message id is passed to the handler (processNewEmail) more than
\* once, over any sequence of poll cycles of the poller.
C1_NoDuplicateDispatch ==
  \A i, j \in 1..Len(handlerLog) : i # j => handlerLog[i] # handlerLog[j]

\* A successful cycle whose page held only messages already dispatched.
C1_Witness ==
  /\ lastOp = "fetchOk"
  /\ Len(handlerLog) >= 2
  /\ ActiveCycles = {}

\* C2: every message id the remote service holds is eventually dispatched,
\* whatever the page size and the backlog depth.  Only ids above the mark are
\* ever dispatched and the mark never decreases, so the claim requires that no
\* held message lies at or below the mark without having been dispatched or
\* being queued in a running cycle: such a message can never be dispatched.
C2_NoMessageSkipped ==
  \A m \in 1..remoteMax :
    (Truthy(lastCheckedMessageId) /\ m <= lastCheckedMessageId)
      => \/ m \in Range(handlerLog)
         \/ \E c \in CycleIds : m \in Range(cycles[c].queue)

\* C3: no two poll cycles of the poller are in progress at the same time: a
\* timer firing never begins a cycle while another cycle has not settled.
C3_SingleFlight ==
  [][lastOp' = "timerFire" => (ActiveCycles = {} /\ Cardinality(ActiveCycles') <= 1)]_vars

\* C4: the handler is invoked in strictly ascending message-id order, within
\* a cycle and across cycles.
C4_AscendingDispatch ==
  \A i, j \in 1..Len(handlerLog) : i < j => handlerLog[i] < handlerLog[j]

\* C8: after stop() has returned and until start() is called again (that is,
\* while polling stays false), no new poll cycle is started.
C8_NoCycleAfterStop ==
  [][(~polling /\ ~polling') => ~CycleBegins]_vars

\* C9: start() on a poller that is already running is a no-op: no second
\* timer, no additional cycle, running and highWaterMark unchanged.
C9_StartWhileRunningNoop ==
  [][lastOp' = "startWhileRunning" => UNCHANGED PollerFields]_vars

\* start() was called while a timer was armed and a timer cycle was running.
C9_Witness ==
  /\ lastOp = "startWhileRunning"
  /\ polling
  /\ Cardinality(timers) = 1
  /\ ActiveCycles # {}

\* C10: stop() is idempotent: after stop(), called once or twice, the poller
\* is in the same state: running = false, no timer armed, highWaterMark as
\* before; the second call changes nothing.
C10_StopIdempotent ==
  [][lastOp' \in {"stop", "stopWhileStopped"} =>
       /\ ~polling'
       /\ pollInterval' = Undefined
       /\ timers' = {}
       /\ lastCheckedMessageId' = lastCheckedMessageId
       /\ (lastOp' = "stopWhileStopped" => UNCHANGED PollerFields)]_vars

\* C11: highWaterMark equals the largest message id of any page fetched so
\* far (unset if none), and it never decreases.
C11_MarkIsLargestFetched ==
  [][/\ lastCheckedMessageId' = maxFetched'
     /\ lastCheckedMessageId' >= lastCheckedMessageId]_vars

\* A successful fetch has set the mark to the largest id of its page, which
\* is not the largest id the service holds.
C11_Witness ==
  /\ lastOp = "fetchOk"
  /\ Truthy(lastCheckedMessageId)
  /\ lastCheckedMessageId = maxFetched
  /\ lastCheckedMessageId < remoteMax

\* the cycle slot whose fetch settled in this step
FetchSettled(c) == cycles[c].pc = "fetch" /\ cycles'[c].pc # "fetch"

\* C12: a successful cycle dispatches exactly {m in page : m.id > highWaterMark
\* at cycle start} (the whole page when the mark is unset), and when it
\* dispatches, the mark becomes the page's largest id.
C12_DispatchSetFromStartMark ==
  [][lastOp' = "fetchOk" =>
       \A c \in CycleIds : FetchSettled(c) =>
         \E order \in ListingOrders :
           LET page == Listing(order, remoteMax)
               new == {m \in Range(page) :
                         ~Truthy(cycles[c].mark) \/ m > cycles[c].mark}
           IN /\ Range(cycles'[c].queue) = new
              /\ (new # {} => lastCheckedMessageId' = Max(Range(page)))]_vars

\* C13: a failed poll cycle is swallowed: the poller's running flag, mark and
\* dispatches are untouched, the invocation ends, a timer cycle leaves the
\* timer as it was, and start()'s initial check still arms the timer.
C13_FailedCycleSwallowed ==
  [][lastOp' = "fetchFail" =>
       \A c \in CycleIds : FetchSettled(c) =>
         /\ polling' = polling
         /\ lastCheckedMessageId' = lastCheckedMessageId
         /\ handlerLog' = handlerLog
         /\ cycles'[c].pc = "idle"
         /\ IF cycles[c].owner = "start"
            THEN Truthy(pollInterval') /\ pollInterval' \in timers' /\ timers \subseteq timers'
            ELSE UNCHANGED <<pollInterval, timers>>]_vars

\* The initial check of a running poller failed, and its timer is armed.
C13_Witness ==
  /\ lastOp = "fetchFail"
  /\ polling
  /\ pollInterval \in timers
  /\ handlerLog = <<>>
  /\ ActiveCycles = {}

\* C14: a failed handler aborts neither the batch nor the poller: the next
\* new message of the cycle is dispatched at once, the running flag and the
\* timers stay.
C14_HandlerFailureIsolated ==
  [][lastOp' = "handlerFail" =>
       \A c \in CycleIds : (cycles[c].pc = "exec" /\ cycles'[c] # cycles[c]) =>
         /\ polling' = polling
         /\ timers \subseteq timers'
         /\ IF Len(cycles[c].queue) > 1
            THEN /\ handlerLog' = Append(handlerLog, cycles[c].queue[2])
                 /\ cycles'[c].pc = "exec"
                 /\ cycles'[c].queue = Tail(cycles[c].queue)
            ELSE /\ handlerLog' = handlerLog
                 /\ cycles'[c].pc = "idle"]_vars

\* A handler failed and the next message of the same batch is being handled.
C14_Witness ==
  /\ lastOp = "handlerFail"
  /\ polling
  /\ Len(handlerLog) = 2
  /\ Cardinality(ActiveCycles) = 1
  /\ \E c \in CycleIds : /\ cycles[c].pc = "exec"
                          /\ cycles[c].queue = <<handlerLog[2]>>


\* ------------------------------------------------ AuthService, ApiClient
\* a session whose expiry is a valid date
HasSession == Truthy(token) /\ tokenExpiry \notin {Undefined, NaN}

\* C15: with a session inside the 5 minute skew (expiry less than 5 minutes
\* away), the next ensureAuthenticated() performs exactly one login(), and the
\* header of the request that follows carries the token that login issued,
\* which is the stored token.
C15_RefreshInsideSkew ==
  [][/\ (lastOp' = "callBegin" /\ HasSession /\ tokenExpiry - now < RefreshSkew)
          => /\ call'.pc = "ensureLogin"
             /\ call'.logins = 1
             /\ call'.attempts = 0
     /\ (lastOp' = "loginReturn" /\ call.pc = "ensureLogin"
           /\ call'.login.kind = "ok" /\ Truthy(call'.login.token))
          => /\ call'.pc = "attempt1"
             /\ call'.logins = 1
             /\ call'.sent = <<call'.login.token>>
             /\ token' = call'.login.token]_vars

\* A call that began with a token inside the skew has logged in once and
\* sent its request with the new token.
C15_Witness ==
  /\ call.pc = "attempt1"
  /\ call.ensured
  /\ Truthy(call.token0)
  /\ call.logins = 1
  /\ call.sent = <<token>>
  /\ token # call.token0

\* C16: with a session that is valid (now < expiry - 5 minutes),
\* ensureAuthenticated() does nothing, and a call answered 2xx returns the
\* body with no login() at all and the session unchanged.
C16_ValidSessionNoLogin ==
  [][/\ (lastOp' = "callBegin" /\ HasSession /\ now < tokenExpiry - RefreshSkew)
          => /\ call'.pc = "attempt1"
             /\ ~call'.ensured
             /\ call'.logins = 0
             /\ call'.sent = <<token>>
             /\ UNCHANGED <<token, tokenExpiry>>
     /\ (lastOp' = "attemptReturn" /\ call.pc = "attempt1" /\ ~call.ensured
           /\ call'.responses[1].status = 200)
          => /\ call'.pc = "done"
             /\ call'.result = "ok"
             /\ call'.value = call'.responses[1].body
             /\ call'.logins = 0
             /\ call'.attempts = 1
             /\ UNCHANGED <<token, tokenExpiry>>]_vars

\* A call that began with a valid session has returned a body without login.
C16_Witness ==
  /\ call.pc = "done"
  /\ ~call.ensured
  /\ call.result = "ok"
  /\ call.value = 2
  /\ call.logins = 0
  /\ Truthy(token) /\ token = call.token0

\* no session at all, or a token with a valid expiry date
WellFormedSession == (token = Undefined /\ tokenExpiry = Undefined) \/ HasSession

\* C17 as stated: ensureAuthenticated() logs in exactly when no session exists
\* or now >= expiry - 5 minutes; at the boundary now = expiry - 5 minutes a
\* login is performed.
C17_LoginIffInclusive ==
  [][(lastOp' = "callBegin" /\ WellFormedSession)
       => (call'.pc = "ensureLogin"
             <=> (~HasSession \/ now >= tokenExpiry - RefreshSkew))]_vars

\* C17, amended: ensureAuthenticated() logs in exactly when no token is
\* stored or now is strictly later than expiry - 5 minutes; at the boundary
\* now = expiry - 5 minutes no login is performed, and a stored expiry that is
\* not a valid date never counts as expired.
C17_LoginIffStrict ==
  [][lastOp' = "callBegin"
       => /\ (call'.pc = "ensureLogin"
                <=> \/ ~Truthy(token)
                    \/ tokenExpiry = Undefined
                    \/ (tokenExpiry # NaN /\ now > tokenExpiry - RefreshSkew))
          /\ call'.logins = (IF call'.pc = "ensureLogin" THEN 1 ELSE 0)
          /\ (HasSession /\ now = tokenExpiry - RefreshSkew)
               => (call'.pc = "attempt1" /\ call'.sent = <<token>>)]_vars

\* A call began exactly 5 minutes before the expiry and did not log in.
C17_Witness ==
  /\ lastOp = "callBegin"
  /\ HasSession
  /\ now = tokenExpiry - RefreshSkew
  /\ call.pc = "attempt1"
  /\ call.logins = 0

\* C18: a 401 answer to the first attempt forces a login whatever the state
\* of the session, and the retry is sent with the token that login returned
\* (the stored token), not with the token of the first attempt.
C18_ForcedLoginUnconditional ==
  [][/\ (lastOp' = "attemptReturn" /\ call.pc = "attempt1"
           /\ call'.responses[1].status = 401)
          => /\ call'.pc = "forcedLogin"
             /\ call'.forced = 1
             /\ call'.logins = call.logins + 1
     /\ (lastOp' = "loginReturn" /\ call.pc = "forcedLogin" /\ call'.pc = "attempt2")
          => /\ call'.login.kind = "ok"
             /\ Len(call'.sent) = 2
             /\ call'.sent[2] = call'.login.token
             /\ token' = call'.login.token]_vars

\* A call that began with a valid session was answered 401 and retried with
\* the other, newly issued token.
C18_Witness ==
  /\ call.pc = "attempt2"
  /\ ~call.ensured
  /\ call.forced = 1
  /\ call.sent = <<call.token0, token>>
  /\ token # call.token0

\* the last login response of the call is one the claim says must fail
BadLoginResponse ==
  \/ call.login.kind \in {"rejected", "network"}
  \/ call.login.kind = "ok" /\ (call.login.token = Undefined \/ call.login.expires = NaN)

\* C19: login() fails on rejected credentials, on a response that reports
\* success without a token or without a parsable expiry, and on a network
\* failure: the call ends with login()'s error and goes no further.
C19_LoginFailsOnBadResponse ==
  BadLoginResponse
    => /\ call.pc = "done"
       /\ call.result = "error"
       /\ call.error \in {MsgLoginFailed, MsgFetchFailed}

\* C20: getAuthHeaders() with no token stored throws, returns no header map,
\* performs no login and leaves the session as it is.
C20_NoTokenNoHeaders ==
  [][(lastOp' = "getAuthHeaders" /\ ~Truthy(token))
       => /\ lastHeaders'.called
          /\ lastHeaders'.thrown
          /\ lastHeaders'.bearer = Undefined
          /\ UNCHANGED <<token, tokenExpiry, call>>]_vars

\* getAuthHeaders() has thrown after the session of a call that succeeded
\* had been cleared.
C20_Witness ==
  /\ lastOp = "getAuthHeaders"
  /\ lastHeaders.thrown
  /\ token = Undefined /\ tokenExpiry = Undefined
  /\ call.pc = "done" /\ call.result = "ok"

\* C21: after a terminal authentication failure (the retry after the forced
\* re-login is answered 401 too) the session is cleared: token and expiry are
\* unset.
C21_TerminalFailureClearsSession ==
  [][(lastOp' = "attemptReturn" /\ call.pc = "attempt2"
        /\ call'.responses[2].status = 401)
       => (token' = Undefined /\ tokenExpiry' = Undefined)]_vars

\* C22: after clearToken() the session is empty whatever it was before:
\* isAuthenticated() is false, getAuthHeaders() throws, and the next
\* ensureAuthenticated() logs in.
C22_ClearEmptiesSession ==
  [][/\ lastOp' = "clearToken"
          => /\ token' = Undefined /\ tokenExpiry' = Undefined
             /\ ~IsAuthenticated'
             /\ AuthHeaders(token').thrown
             /\ NeedsLogin'
     /\ (lastOp = "clearToken" /\ lastOp' = "callBegin")
          => (call'.pc = "ensureLogin" /\ call'.logins = 1)]_vars

\* The session a call had succeeded with has been cleared.
C22_Witness ==
  /\ lastOp = "clearToken"
  /\ token = Undefined /\ tokenExpiry = Undefined
  /\ call.pc = "done" /\ call.result = "ok" /\ Truthy(call.token0)

\* login() has just returned with a response that carries a token and a
\* valid expiry date
LoginJustReturned ==
  /\ lastOp' = "loginReturn"
  /\ call'.login.kind = "ok"
  /\ Truthy(call'.login.token)
  /\ call'.login.expires # NaN

InitialCycleSettles(c) ==
  /\ cycles[c].owner = "start"
  /\ cycles[c].pc \in {"fetch", "exec"}
  /\ cycles[c].pc = "exec" => Len(cycles[c].queue) = 1
  /\ cycles'[c].pc = "idle"

\* C24: start() sets polling and begins its initial cycle without arming a
\* timer; a timer is armed only in the step in which the initial cycle of a
\* start() call settles (fetch and every handler dispatch done), so the timer
\* of that call fires only after it; and polling is true from the start() on
\* (only stop() resets it).
C24_InitialCycleBeforeTimer ==
  [][/\ lastOp' = "start"
          => /\ polling'
             /\ \E c \in CycleIds : /\ cycles[c].pc = "idle"
                                    /\ cycles'[c].pc = "fetch"
                                    /\ cycles'[c].owner = "start"
             /\ UNCHANGED <<timers, pollInterval>>
     /\ ~(timers' \subseteq timers)
          => /\ \E c \in CycleIds : InitialCycleSettles(c)
             /\ timers' = timers \cup {pollInterval'}
     /\ (polling /\ ~polling') => lastOp' = "stop"]_vars

\* The initial cycle of start() has dispatched two messages and settled; the
\* poller is running with its first timer armed and no timer cycle begun yet.
C24_Witness ==
  /\ lastOp \in {"handlerOk", "handlerFail"}
  /\ polling
  /\ Len(handlerLog) = 2
  /\ ActiveCycles = {}
  /\ Cardinality(timers) = 1 /\ pollInterval \in timers

\* C25: stop() leaves every poll cycle in progress as it is, and a cycle in
\* progress after stop() goes on as if the poller were running: its fetch
\* dispatches the page's new messages and each settled handler is followed by
\* the dispatch of the next new message.
C25_StopDoesNotCancelCycle ==
  [][/\ lastOp' \in {"stop", "stopWhileStopped"}
          => (cycles' = cycles /\ handlerLog' = handlerLog
                /\ lastCheckedMessageId' = lastCheckedMessageId)
     /\ (~polling /\ lastOp' = "fetchOk")
          => \A c \in CycleIds : FetchSettled(c) =>
               \E order \in ListingOrders :
                 LET new == {m \in Range(Listing(order, remoteMax)) :
                               ~Truthy(lastCheckedMessageId) \/ m > lastCheckedMessageId}
                 IN /\ Range(cycles'[c].queue) = new
                    /\ new # {} => handlerLog' = Append(handlerLog, Head(cycles'[c].queue))
     /\ (~polling /\ lastOp' \in {"handlerOk", "handlerFail"})
          => \A c \in CycleIds :
               (cycles[c].pc = "exec" /\ cycles'[c] # cycles[c] /\ Len(cycles[c].queue) > 1)
                 => /\ handlerLog' = Append(handlerLog, cycles[c].queue[2])
                    /\ cycles'[c].pc = "exec"]_vars

\* After stop() a cycle that was dispatching has gone on to its second new
\* message.
C25_Witness ==
  /\ ~polling
  /\ lastOp \in {"handlerOk", "handlerFail"}
  /\ Len(handlerLog) = 2
  /\ Cardinality(ActiveCycles) = 1
  /\ \E c \in CycleIds : cycles[c].pc = "exec" /\ cycles[c].queue = <<handlerLog[2]>>

\* the calls of the shared ApiClient that are between their begin and outcome
CallsInProgress == {k \in Callers : calls[k].pc \notin {"idle", "done"}}

\* C26: at most one request-retry sequence is in progress for one ApiClient
\* at any time, and no two calls are in their login at once.
C26_SingleFlightCalls ==
  /\ Cardinality(CallsInProgress) <= 1
  /\ Cardinality({k \in Callers : calls[k].pc \in {"ensureLogin", "forcedLogin"}}) <= 1

\* ------------------------------------------------- the tools, the mailbox
\* C27: once markAsRead(id) has returned, the service holds id as read and
\* the flags of all other messages are as before, so a later
\* fetchMessageById(id) (or listing) yields is_read = 1.
C27_MarkAsReadRoundTrip ==
  [][/\ (lastOp' = "markAsRead" /\ client'.result = "ok")
          => /\ client'.id \in readIds'
             /\ readIds' \ {client'.id} = readIds \ {client'.id}
     /\ client'.marked \subseteq readIds'
     /\ (lastOp' = "fetchMessageById" /\ client'.result = "ok"
           /\ client'.id \in client'.marked)
          => (Truthy(client'.is_read) /\ readIds' = readIds)]_vars

\* markAsRead(2) has returned and the message fetched again is read, while
\* another message the service holds is still unread.
C27_Witness ==
  /\ lastOp = "fetchMessageById"
  /\ client.result = "ok"
  /\ client.id = 2 /\ client.marked = {2}
  /\ Truthy(client.is_read)
  /\ readIds = {2} /\ remoteMax = 3

Min(S) == CHOOSE x \in S : \A y \in S : x <= y

StartsWith(text, prefix) ==
  /\ Len(text) >= Len(prefix)
  /\ \A i \in 1..Len(prefix) : text[i] = prefix[i]

\* the message ids the invocation has called markAsRead for
MarkCalls == {tool.apiLog[i].arg : i \in {j \in 1..Len(tool.apiLog) : tool.apiLog[j].op = "markAsRead"}}

\* C28: fetch_email without email_id, its listing done (the service listing
\* newest first): if the mailbox held unread messages it calls markAsRead for
\* the oldest of them only and returns that message; if it held none it
\* marks nothing and reports that none was found.
C28_FetchOldestUnread ==
  LET finished == /\ tool.name = "fetch_email"
                  /\ ~tool.byId
                  /\ tool.listed
                  /\ tool.order = "newestFirst"
                  /\ tool.pc = "done"
  IN finished
       => IF tool.unread0 = {}
          THEN /\ MarkCalls = {}
               /\ tool.text \in {TextNoEmails, TextNoUnread}
          ELSE /\ MarkCalls = {Min(tool.unread0)}
               /\ (~tool.failed) => (tool.text = TextMessage /\ tool.id = Min(tool.unread0))

\* C29: send_email calls sendEmail at most once and never with an empty
\* recipient: with valid parameters and a recipient (`to`, else USEREMAIL) it
\* calls it with that recipient; otherwise it calls nothing and returns an
\* error response.
C29_SendEmailRecipient ==
  tool.name = "send_email"
    => IF tool.valid /\ (StrTruthy(tool.to) \/ StrTruthy(tool.userEmail))
       THEN tool.apiLog = <<[op |-> "sendEmail", arg |-> 0,
                             to |-> IF StrTruthy(tool.to) THEN tool.to ELSE tool.userEmail]>>
       ELSE /\ tool.apiLog = <<>>
            /\ tool.pc = "done" /\ tool.outcome = "response"
            /\ StartsWith(tool.text, ErrSendEmail)

\* send_email without `to` has called sendEmail with USEREMAIL.
C29_Witness ==
  /\ tool.name = "send_email"
  /\ tool.to = NoString /\ tool.userEmail = AddrUser
  /\ tool.pc = "api"
  /\ tool.apiLog[1].to = AddrUser

NormalTexts == {TextSent, TextMessage, TextNoEmails, TextNoUnread, TextInbox, TextReplied}

\* C30: a tool handler never rejects: every invocation ends with a response,
\* and after any failure (validation or ApiClient) the text of the response
\* is the handler's error prefix followed by a message.
C30_HandlersNeverThrow ==
  /\ tool.outcome # "rejected"
  /\ tool.pc = "done" => tool.outcome = "response"
  /\ tool.failed => /\ tool.pc = "done"
                    /\ StartsWith(tool.text, ErrorPrefix(tool.name))
                    /\ Len(tool.text) > Len(ErrorPrefix(tool.name))
  /\ (tool.pc = "done" /\ ~tool.failed) => tool.text \in NormalTexts

\* reply_email has answered a timeout of the ApiClient with an error text.
C30_Witness ==
  /\ tool.name = "reply_email"
  /\ tool.pc = "done" /\ tool.failed
  /\ tool.outcome = "response"
  /\ tool.text = ErrReplyEmail \o MsgTimeout

\* C31: a call whose first request attempt fails with a network error is
\* retried: it does not end in that error after a single request attempt.
C31_NetworkErrorRetried ==
  (FirstStatus = 0 /\ call.pc = "done")
    => ~(call.result = "error" /\ call.error = MsgFetchFailed /\ call.attempts = 1)

\* C32: at most one recurring timer is armed, and a timer is armed only while
\* the poller is polling, in every reachable state of the poller.
C32_OneTimerOnlyWhilePolling ==
  /\ Cardinality(timers) <= 1
  /\ timers # {} => polling

\* the cycle whose handler settles in this step
Settling(c) == cycles[c].pc = "exec" /\ cycles'[c] # cycles[c]

\* C33: the mark is moved past the whole batch before its first handler runs,
\* a failing handler does not move it back, and no message handed to the
\* handler before (its handler failed or not) is handed to it again.
C33_FailedMessageNotRedispatched ==
  [][/\ \A c \in CycleIds :
          (cycles[c].pc = "fetch" /\ cycles'[c].pc = "exec")
            => \A m \in Range(cycles'[c].queue) : m <= lastCheckedMessageId'
     /\ lastOp' = "handlerFail"
          => /\ lastCheckedMessageId' = lastCheckedMessageId
             /\ \A c \in CycleIds :
                  Settling(c) => /\ Head(cycles[c].queue) <= lastCheckedMessageId'
                                 /\ Head(cycles[c].queue) \in Range(handlerLog')
     /\ handlerLog' # handlerLog
          => /\ Len(handlerLog') = Len(handlerLog) + 1
             /\ handlerLog'[Len(handlerLog')] \notin Range(handlerLog)]_vars

\* The handler of message 1 has just failed and the rest of its batch goes
\* on, while a later cycle is fetching.
C33_Witness ==
  /\ lastOp = "handlerFail"
  /\ handlerLog = <<1, 2>>
  /\ remoteMax = 2 /\ lastCheckedMessageId = 2
  /\ \E c \in CycleIds : cycles[c].pc = "exec" /\ cycles[c].queue = <<2>>
  /\ \E c \in CycleIds : cycles[c].pc = "fetch"

\* C34: stop() and start() leave lastCheckedMessageId (and what has been
\* dispatched) as they were, and the initial check of a start(), the first or
\* a later one, dispatches no message that was dispatched before.
C34_StopStartKeepMark ==
  [][/\ lastOp' \in {"stop", "stopWhileStopped", "start", "startWhileRunning"}
          => /\ lastCheckedMessageId' = lastCheckedMessageId
             /\ handlerLog' = handlerLog
     /\ \A c \in CycleIds :
          (cycles[c].pc = "fetch" /\ cycles[c].owner = "start" /\ cycles'[c].pc = "exec")
            => Range(cycles'[c].queue) \cap Range(handlerLog) = {}]_vars

\* The initial check of a second start() has fetched messages 1 and 2 and
\* dispatches message 2 only: message 1 was dispatched before the stop().
C34_Witness ==
  /\ lastOp = "fetchOk"
  /\ polling
  /\ handlerLog = <<1, 2>>
  /\ lastCheckedMessageId = 2
  /\ \E c \in CycleIds :
       /\ cycles[c].pc = "exec" /\ cycles[c].owner = "start" /\ cycles[c].queue = <<2>>
       /\ \A d \in CycleIds \ {c} : cycles[d].pc = "idle"

\* C35: when the forced re-login after a 401 fails, the call ends with the
\* login's error after exactly one request attempt: no retry is sent.
C35_NoRetryAfterFailedReauth ==
  (call.pc = "done" /\ call.forced = 1 /\ call.login.kind \in {"rejected", "network"})
    => /\ call.attempts = 1
       /\ Len(call.responses) = 1
       /\ call.result = "error"
       /\ call.error = IF call.login.kind = "network" THEN MsgFetchFailed ELSE MsgLoginFailed

\* A call answered 401 whose forced re-login was rejected has ended.
C35_Witness ==
  /\ call.pc = "done"
  /\ FirstStatus = 401
  /\ call.forced = 1
  /\ call.login.kind = "rejected"
  /\ call.attempts = 1
  /\ call.error = MsgLoginFailed

\* C36: a login() or a register() that fails (its request is rejected or
\* does not complete) leaves the stored token and expiry as they were.
C36_FailedLoginKeepsSession ==
  [][/\ (lastOp' = "loginReturn" /\ call'.login.kind \in {"rejected", "network"})
          => (token' = token /\ tokenExpiry' = tokenExpiry)
     /\ lastOp' = "registerFail"
          => (token' = token /\ tokenExpiry' = tokenExpiry)]_vars

\* The forced re-login of a call has failed while a token and an expiry were
\* stored: both are still there.
C36_Witness ==
  /\ lastOp = "loginReturn"
  /\ call.forced = 1
  /\ call.login.kind = "network"
  /\ call.result = "error"
  /\ token = 1 /\ tokenExpiry = 6

\* C37: in every reachable state of the AuthService the token and its expiry
\* are both set or both unset.
C37_TokenAndExpiryTogether ==
  (token = Undefined) <=> (tokenExpiry = Undefined)

\* C38: fetch_email with an email_id whose message is not addressed to the
\* instance ends with an error response and has not called markAsRead.
C38_ForeignMessageNotMarked ==
  (tool.name = "fetch_email" /\ tool.fetched = "other")
    => /\ tool.pc = "done" /\ tool.outcome = "response"
       /\ tool.text = ErrFetchEmail \o MsgNotAddressed
       /\ MarkCalls = {}
       /\ Len(tool.apiLog) = 1 /\ tool.apiLog[1].op = "fetchMessageById"

\* fetch_email for message 2, which is addressed to someone else, has ended
\* with the error; message 2 is still unread.
C38_Witness ==
  /\ tool.name = "fetch_email" /\ tool.byId /\ tool.id = 2
  /\ tool.fetched = "other"
  /\ tool.pc = "done" /\ tool.failed
  /\ 2 \notin readIds /\ remoteMax >= 2

\* C39: when SIGINT or SIGTERM has ended the process of the live command
\* while its poller was running (start() had returned and liveCommand had
\* registered its listeners), emailPoller.stop() was called before the exit.
C39_StopBeforeExit ==
  (live.pc = "exited" /\ live.signal # "none" /\ live.running
     /\ "live" \in Range(live.listeners))
    => live.stopCalled

TypeOK ==
  /\ polling \in BOOLEAN
  /\ pollInterval \in Handles \cup {Undefined}
  /\ lastCheckedMessageId \in Ids \cup {Undefined}
  /\ timers \subseteq Handles
  /\ remoteMax \in 0..MaxId
====
